---- MODULE Spec2Model ----
(***************************************************************************)
(* A model of healthkit_dashboard.py: the Metric Catalog                   *)
(* (HEALTHKIT_METRICS), the Record Extractor (parse_healthkit_export), the *)
(* Daily Aggregator (create_visualization) and the script body (main) with *)
(* its summary statistics.                                                 *)
(*                                                                         *)
(* Python None is the empty sequence << >> and a present attribute string  *)
(* s is << s >>.  A float is a record [k, n, d]: k = "fin" with the exact  *)
(* rational n/d (d > 0, lowest terms), or k = "nan", "inf", "-inf".        *)
(* Binary rounding of finite floats is not modelled.                       *)
(***************************************************************************)
EXTENDS Integers, Sequences, FiniteSets, TLC

VARIABLES uploaded_file, df, extracted, trigger, ran, call, screen, memo

vars == <<uploaded_file, df, extracted, trigger, ran, call, screen, memo>>

(***************************************************************************)
(* Bounds of the model.                                                    *)
(***************************************************************************)
\* Most elements below the root of a document of the extractor specification.
MaxElems == 2
\* Most elements below the root of a document of the pipeline specification.
MaxRecords == 2

None == << >>
Some(s) == << s >>

(***************************************************************************)
(* Sequences and strings.                                                  *)
(***************************************************************************)
InSeq(x, s) == \E i \in DOMAIN s : s[i] = x

RECURSIVE Flatten(_)
Flatten(ss) == IF ss = << >> THEN << >> ELSE Head(ss) \o Flatten(Tail(ss))

SeqsUpTo(S, n) == UNION { [1..k -> S] : k \in 0..n }

\* Python's  t in s  for two strings.
Contains(s, t) ==
    \E i \in 1..(Len(s) - Len(t) + 1) : SubSeq(s, i, i + Len(t) - 1) = t

Digits == "0123456789"

IsDigit(c) == \E i \in 1..10 : SubSeq(Digits, i, i) = c

DigitVal(c) == (CHOOSE i \in 1..10 : SubSeq(Digits, i, i) = c) - 1

AllDigits(s) == Len(s) > 0 /\ \A i \in 1..Len(s) : IsDigit(SubSeq(s, i, i))

RECURSIVE ParseNat(_)
ParseNat(s) ==
    IF Len(s) = 0 THEN 0
    ELSE 10 * ParseNat(SubSeq(s, 1, Len(s) - 1)) + DigitVal(SubSeq(s, Len(s), Len(s)))

(***************************************************************************)
(* Floats.                                                                 *)
(***************************************************************************)
RECURSIVE GCD(_, _)
GCD(a, b) == IF b = 0 THEN a ELSE GCD(b, a % b)

Abs(x) == IF x < 0 THEN -x ELSE x

Rat(n, d) ==
    LET g == GCD(Abs(n), d)
    IN  [k |-> "fin", n |-> n \div g, d |-> d \div g]

Fin(n) == [k |-> "fin", n |-> n, d |-> 1]
NaN == [k |-> "nan", n |-> 0, d |-> 1]
PosInf == [k |-> "inf", n |-> 0, d |-> 1]
NegInf == [k |-> "-inf", n |-> 0, d |-> 1]

IsFinite(x) == x.k = "fin"
IsNaN(x) == x.k = "nan"

\* IEEE addition: NaN absorbs, inf + -inf is NaN.
FAdd(a, b) ==
    IF IsNaN(a) \/ IsNaN(b) THEN NaN
    ELSE IF IsFinite(a) /\ IsFinite(b) THEN Rat(a.n * b.d + b.n * a.d, a.d * b.d)
    ELSE IF IsFinite(a) THEN b
    ELSE IF IsFinite(b) THEN a
    ELSE IF a.k = b.k THEN a
    ELSE NaN

\* IEEE division by a positive count.
FDivInt(a, c) == IF IsFinite(a) THEN Rat(a.n, a.d * c) ELSE a

\* a < b for two floats neither of which is NaN.
FLess(a, b) ==
    IF a.k = "-inf" THEN b.k # "-inf"
    ELSE IF a.k = "inf" THEN FALSE
    ELSE IF b.k = "inf" THEN TRUE
    ELSE IF b.k = "-inf" THEN FALSE
    ELSE a.n * b.d < b.n * a.d

RECURSIVE FSum(_)
FSum(s) == IF s = << >> THEN Fin(0) ELSE FAdd(Head(s), FSum(Tail(s)))

(***************************************************************************)
(* The Metric Catalog: the dict HEALTHKIT_METRICS in insertion order.      *)
(***************************************************************************)
HEALTHKIT_METRICS ==
    << [category |-> "Activity",
        metrics  |-> << "HKQuantityTypeIdentifierStepCount",
                        "HKQuantityTypeIdentifierDistanceWalkingRunning",
                        "HKQuantityTypeIdentifierFlightsClimbed",
                        "HKQuantityTypeIdentifierActiveEnergyBurned",
                        "HKQuantityTypeIdentifierBasalEnergyBurned" >>],
       [category |-> "Vital Signs",
        metrics  |-> << "HKQuantityTypeIdentifierHeartRate",
                        "HKQuantityTypeIdentifierRestingHeartRate",
                        "HKQuantityTypeIdentifierHeartRateVariabilitySDNN",
                        "HKQuantityTypeIdentifierOxygenSaturation",
                        "HKQuantityTypeIdentifierRespiratoryRate",
                        "HKQuantityTypeIdentifierBodyTemperature",
                        "HKQuantityTypeIdentifierBloodPressureSystolic",
                        "HKQuantityTypeIdentifierBloodPressureDiastolic" >>],
       [category |-> "Body Measurements",
        metrics  |-> << "HKQuantityTypeIdentifierHeight",
                        "HKQuantityTypeIdentifierBodyMass",
                        "HKQuantityTypeIdentifierBodyFatPercentage",
                        "HKQuantityTypeIdentifierLeanBodyMass",
                        "HKQuantityTypeIdentifierBodyMassIndex" >>],
       [category |-> "Sleep",
        metrics  |-> << "HKCategoryTypeIdentifierSleepAnalysis" >>],
       [category |-> "Nutrition",
        metrics  |-> << "HKQuantityTypeIdentifierDietaryWater",
                        "HKQuantityTypeIdentifierDietaryEnergyConsumed",
                        "HKQuantityTypeIdentifierDietaryProtein",
                        "HKQuantityTypeIdentifierDietaryFatTotal",
                        "HKQuantityTypeIdentifierDietaryCarbohydrates" >>],
       [category |-> "Mindfulness",
        metrics  |-> << "HKCategoryTypeIdentifierMindfulSession" >>] >>

\* list(HEALTHKIT_METRICS.keys())
Categories == { HEALTHKIT_METRICS[i].category : i \in DOMAIN HEALTHKIT_METRICS }

\* HEALTHKIT_METRICS[category]
MetricsOf(category) ==
    LET i == CHOOSE j \in DOMAIN HEALTHKIT_METRICS :
                 HEALTHKIT_METRICS[j].category = category
    IN  HEALTHKIT_METRICS[i].metrics

\* [metric for category in HEALTHKIT_METRICS.values() for metric in category]
all_metrics ==
    Flatten([i \in DOMAIN HEALTHKIT_METRICS |-> HEALTHKIT_METRICS[i].metrics])

\* next(cat for cat, metrics in HEALTHKIT_METRICS.items() if record_type in metrics)
CategoryOf(record_type) ==
    LET hits == { j \in DOMAIN HEALTHKIT_METRICS :
                     InSeq(record_type, HEALTHKIT_METRICS[j].metrics) }
        i == CHOOSE j \in hits : \A h \in hits : j <= h
    IN  HEALTHKIT_METRICS[i].category

(***************************************************************************)
(* float(record.get('value')), for None, signed decimal integer literals   *)
(* and the non-finite literals; the result is the float or the exception.  *)
(***************************************************************************)
LowerChar(c) ==
    CASE c = "A" -> "a" [] c = "F" -> "f" [] c = "I" -> "i" [] c = "N" -> "n"
      [] c = "T" -> "t" [] c = "Y" -> "y" [] OTHER -> c

RECURSIVE Lower(_)
Lower(s) ==
    IF Len(s) = 0 THEN ""
    ELSE LowerChar(SubSeq(s, 1, 1)) \o Lower(SubSeq(s, 2, Len(s)))

Raised(e) == [ok |-> FALSE, err |-> e, val |-> None]
Returned(v) == [ok |-> TRUE, err |-> "", val |-> Some(v)]

pyFloat(a) ==
    IF a = None THEN Raised("TypeError")
    ELSE LET s == a[1]
             signed == Len(s) > 0 /\ SubSeq(s, 1, 1) \in {"+", "-"}
             neg == signed /\ SubSeq(s, 1, 1) = "-"
             body == IF signed THEN SubSeq(s, 2, Len(s)) ELSE s
         IN  IF Lower(body) = "nan" THEN Returned(NaN)
             ELSE IF Lower(body) \in {"inf", "infinity"}
                  THEN Returned(IF neg THEN NegInf ELSE PosInf)
             ELSE IF AllDigits(body)
                  THEN Returned(Fin(IF neg THEN -ParseNat(body) ELSE ParseNat(body)))
             ELSE Raised("ValueError")

(***************************************************************************)
(* datetime.strptime(record.get('startDate'), '%Y-%m-%d %H:%M:%S %z') for  *)
(* None and for strings with zero-padded fields and a +HHMM / -HHMM offset.*)
(***************************************************************************)
IsLeap(y) == (y % 4 = 0 /\ y % 100 # 0) \/ y % 400 = 0

DaysInMonth(y, m) ==
    IF m = 2 THEN (IF IsLeap(y) THEN 29 ELSE 28)
    ELSE IF m \in {4, 6, 9, 11} THEN 30 ELSE 31

strptime(a) ==
    IF a = None THEN Raised("TypeError")
    ELSE LET s == a[1]
             F(i, j) == SubSeq(s, i, j)
         IN  IF Len(s) # 25 THEN Raised("ValueError")
             ELSE IF ~ ( /\ AllDigits(F(1, 4)) /\ F(5, 5) = "-"
                         /\ AllDigits(F(6, 7)) /\ F(8, 8) = "-"
                         /\ AllDigits(F(9, 10)) /\ F(11, 11) = " "
                         /\ AllDigits(F(12, 13)) /\ F(14, 14) = ":"
                         /\ AllDigits(F(15, 16)) /\ F(17, 17) = ":"
                         /\ AllDigits(F(18, 19)) /\ F(20, 20) = " "
                         /\ F(21, 21) \in {"+", "-"}
                         /\ AllDigits(F(22, 25)) )
                  THEN Raised("ValueError")
             ELSE LET y == ParseNat(F(1, 4))
                      m == ParseNat(F(6, 7))
                      d == ParseNat(F(9, 10))
                      H == ParseNat(F(12, 13))
                      M == ParseNat(F(15, 16))
                      S == ParseNat(F(18, 19))
                      oh == ParseNat(F(22, 23))
                      om == ParseNat(F(24, 25))
                      sgn == IF F(21, 21) = "-" THEN -1 ELSE 1
                  IN  IF  /\ y >= 1 /\ m \in 1..12 /\ d \in 1..DaysInMonth(y, m)
                          /\ H < 24 /\ M < 60 /\ S < 60 /\ oh < 24 /\ om < 60
                      THEN Returned([year |-> y, month |-> m, day |-> d,
                                     hour |-> H, minute |-> M, second |-> S,
                                     utcoffset |-> sgn * (60 * oh + om)])
                      ELSE Raised("ValueError")

(***************************************************************************)
(* The uploaded document.  ET.parse raises for a document that cannot be   *)
(* read or is not well formed; `below` lists the elements beneath the root *)
(* in document order, whatever their nesting.                              *)
(***************************************************************************)
Element(tag, type, value, unit, startDate) ==
    [tag |-> tag, type |-> type, value |-> value, unit |-> unit,
     startDate |-> startDate]

Document(status, root, below) == [status |-> status, root |-> root, below |-> below]

\* A variant that iterates every element beneath the root, whatever its tag.
FindAnyTag(doc) == doc.below

\* root.findall('.//Record'): the Record elements beneath the root.
findall(doc) == SelectSeq(doc.below, LAMBDA e : e.tag = "Record")

(***************************************************************************)
(* parse_healthkit_export.                                                 *)
(***************************************************************************)
\* The loop body for one element: the dicts it appends to `records`.
ExtractRecord(record) ==
    LET record_type == record.type
        value == pyFloat(record.value)
        date == strptime(record.startDate)
    IN  IF record_type # None /\ InSeq(record_type[1], all_metrics)
        THEN IF ~value.ok THEN << >>
             ELSE IF ~date.ok THEN << >>
             ELSE << [type |-> record_type[1],
                      value |-> value.val[1],
                      unit |-> record.unit,
                      date |-> date.val[1],
                      category |-> CategoryOf(record_type[1])] >>
        ELSE << >>

RECURSIVE ExtractLoop(_)
ExtractLoop(found) ==
    IF found = << >> THEN << >>
    ELSE ExtractRecord(Head(found)) \o ExtractLoop(Tail(found))

\* pd.DataFrame(records): no columns for no records; the date column is
\* datetime64[ns, tz] when every datetime has the same tzinfo, else object.
DataFrame(records) ==
    [rows |-> records,
     dateDtype |->
        IF records = << >> THEN "none"
        ELSE IF \A i, j \in DOMAIN records :
                    records[i].date.utcoffset = records[j].date.utcoffset
             THEN "datetime64" ELSE "object"]

\* A variant that returns the frame built so far along with the error.
ParsePartialOnError(file) ==
    [df |-> Some(DataFrame(ExtractLoop(findall(file)))),
     error |-> IF file.status # "ok" THEN Some("Error processing file") ELSE None]

\* The DataFrame returned, or None after st.error.
parse_healthkit_export(file) ==
    IF file.status # "ok"
    THEN [df |-> None, error |-> Some("Error processing file")]
    ELSE [df |-> Some(DataFrame(ExtractLoop(findall(file)))), error |-> None]

(***************************************************************************)
(* Dates and pandas reductions (NaN is skipped: skipna, min_count = 0).    *)
(***************************************************************************)
\* Series.dt.date / Timestamp.date(): the calendar date in the timestamp's own offset.
dt_date(ts) == <<ts.year, ts.month, ts.day>>

DateLess(a, b) ==
    \/ a[1] < b[1]
    \/ a[1] = b[1] /\ a[2] < b[2]
    \/ a[1] = b[1] /\ a[2] = b[2] /\ a[3] < b[3]

DateLE(a, b) == a = b \/ DateLess(a, b)

DaysFromCivil(y, m, d) ==
    LET yy == IF m <= 2 THEN y - 1 ELSE y
        mm == IF m > 2 THEN m - 3 ELSE m + 9
    IN  365 * yy + (yy \div 4) - (yy \div 100) + (yy \div 400)
          + ((153 * mm + 2) \div 5) + d - 1

\* The point in time of an offset-aware datetime: <<minutes, seconds>>.
Instant(ts) ==
    << (DaysFromCivil(ts.year, ts.month, ts.day) * 24 + ts.hour) * 60 + ts.minute
         - ts.utcoffset,
       ts.second >>

InstantLess(a, b) == a[1] < b[1] \/ (a[1] = b[1] /\ a[2] < b[2])

NonNaN(vals) == SelectSeq(vals, LAMBDA v : ~IsNaN(v))

pdSum(vals) == FSum(NonNaN(vals))

pdMean(vals) ==
    LET v == NonNaN(vals)
    IN  IF v = << >> THEN NaN ELSE FDivInt(FSum(v), Len(v))

pdMin(vals) ==
    LET v == NonNaN(vals)
    IN  IF v = << >> THEN NaN
        ELSE v[CHOOSE i \in DOMAIN v : \A j \in DOMAIN v : ~FLess(v[j], v[i])]

pdMax(vals) ==
    LET v == NonNaN(vals)
    IN  IF v = << >> THEN NaN
        ELSE v[CHOOSE i \in DOMAIN v : \A j \in DOMAIN v : ~FLess(v[i], v[j])]

\* The group keys of groupby(...): the distinct dates, sorted ascending.
RECURSIVE SortedDates(_)
SortedDates(S) ==
    IF S = {} THEN << >>
    ELSE LET lo == CHOOSE a \in S : \A b \in S : DateLE(a, b)
         IN  << lo >> \o SortedDates(S \ {lo})

(***************************************************************************)
(* create_visualization(df, metric_type, date_range).                      *)
(***************************************************************************)
\* The rows kept by the boolean mask.
filtered_df(frame, metric_type, date_range) ==
    SelectSeq(frame.rows, LAMBDA r :
        /\ r.type = metric_type
        /\ DateLE(date_range[1], dt_date(r.date))
        /\ DateLE(dt_date(r.date), date_range[2]))

\* The aggregation chosen from the identifier.
agg_func(metric_type) ==
    IF Contains(metric_type, "HeartRate") THEN <<"mean", "min", "max">>
    ELSE IF \E keyword \in {"StepCount", "Distance", "Energy"} :
                Contains(metric_type, keyword)
         THEN <<"sum">>
         ELSE <<"mean">>

\* The values of one group, in frame order.
GroupValues(rows, key) ==
    LET g == SelectSeq(rows, LAMBDA r : dt_date(r.date) = key)
    IN  [i \in DOMAIN g |-> g[i].value]

\* groupby(date).agg(...).reset_index(): one row per group key.
daily_data(rows, metric_type) ==
    LET keys == SortedDates({ dt_date(rows[i].date) : i \in DOMAIN rows })
        how == agg_func(metric_type)
    IN  [i \in DOMAIN keys |->
            LET vals == GroupValues(rows, keys[i])
            IN  IF how = <<"mean", "min", "max">>
                THEN [date |-> keys[i], mean |-> pdMean(vals),
                      min |-> pdMin(vals), max |-> pdMax(vals)]
                ELSE IF how = <<"sum">>
                THEN [date |-> keys[i], value |-> pdSum(vals)]
                ELSE [date |-> keys[i], value |-> pdMean(vals)]]

\* The function's result: (fig, daily_data), or the exception it raises:
\* df['type'] on a frame without columns, .dt on an object column.
create_visualization(frame, metric_type, date_range) ==
    IF frame.dateDtype = "none" THEN Raised("KeyError")
    ELSE IF frame.dateDtype = "object" THEN Raised("AttributeError")
    ELSE LET daily == daily_data(filtered_df(frame, metric_type, date_range), metric_type)
             traces == IF Contains(metric_type, "HeartRate")
                       THEN <<"Average", "Maximum", "Minimum">>
                       ELSE <<"value">>
         IN  Returned([fig |-> [traces |-> traces, height |-> 500],
                       daily_data |-> daily])

\* A variant that keeps the filtered rows in the caller's frame.
FilterInPlace(frame, metric_type, date_range) ==
    IF frame.dateDtype = "datetime64"
    THEN [frame EXCEPT !.rows = filtered_df(frame, metric_type, date_range)]
    ELSE frame

\* The caller's frame after the call: the mask builds a new frame and the
\* function assigns to no column of df.
FrameAfterVisualization(frame, metric_type, date_range) == frame

(***************************************************************************)
(* main(): one run of the script.                                          *)
(***************************************************************************)
\* f"{x:.1f}": the text of x to one decimal, as its number of tenths
\* (round half to even), or the text nan / inf / -inf.
Format1f(x) ==
    IF ~IsFinite(x) THEN [text |-> x.k, tenths |-> 0]
    ELSE LET q == (10 * x.n) \div x.d
             r == (10 * x.n) % x.d
         IN  [text |-> "decimal",
              tenths |-> IF 2 * r < x.d THEN q
                         ELSE IF 2 * r > x.d THEN q + 1
                         ELSE IF q % 2 = 0 THEN q ELSE q + 1]

\* The four st.metric cells.  daily_data['value'] is a frame of three columns
\* under the heart-rate branch; its .mean() is a Series and the format raises.
summary_statistics(daily, metric_type) ==
    IF Contains(metric_type, "HeartRate") THEN Raised("TypeError")
    ELSE LET value == [i \in DOMAIN daily |-> daily[i].value]
         IN  Returned([Average |-> Format1f(pdMean(value)),
                       Maximum |-> Format1f(pdMax(value)),
                       Minimum |-> Format1f(pdMin(value)),
                       TotalDays |-> Len(daily)])

BlankScreen ==
    [error |-> None, exception |-> None, warning |-> None,
     chart |-> None, metrics |-> None, table |-> None]

\* [metric for metric in HEALTHKIT_METRICS[category] if metric in df['type'].unique()]
available_metrics(category, frame) ==
    SelectSeq(MetricsOf(category),
              LAMBDA metric : \E i \in DOMAIN frame.rows : frame.rows[i].type = metric)

\* [df['date'].min(), df['date'].max()] as the date_input shows it.
DefaultDateRange(frame) ==
    LET rows == frame.rows
        at(i) == Instant(rows[i].date)
        lo == CHOOSE i \in DOMAIN rows :
                 \A j \in DOMAIN rows :
                     InstantLess(at(i), at(j)) \/ (at(i) = at(j) /\ i <= j)
        hi == CHOOSE i \in DOMAIN rows :
                 \A j \in DOMAIN rows :
                     InstantLess(at(j), at(i)) \/ (at(i) = at(j) /\ i <= j)
    IN  << dt_date(rows[lo].date), dt_date(rows[hi].date) >>

\* Lines 151-166 of a run: the summary cells and the table, after the chart.
MainSummary(parsed, made, result, stats) ==
    LET shown == [BlankScreen EXCEPT !.chart = Some(result.val[1].fig)]
    IN  [df |-> Some(FrameAfterVisualization(parsed.df[1], made.metric_type, made.date_range)),
         extracted |-> parsed.df,
         ran |-> {"extract", "aggregate", "summary"},
         call |-> Some(made),
         screen |-> IF ~stats.ok
                    THEN [shown EXCEPT !.exception = Some(stats.err)]
                    ELSE [shown EXCEPT !.metrics = stats.val,
                                       !.table = Some(result.val[1].daily_data)]]

\* Lines 148-166 of a run: after create_visualization returned or raised.
MainVisualized(parsed, made, result) ==
    IF ~result.ok
    THEN [df |-> Some(FrameAfterVisualization(parsed.df[1], made.metric_type, made.date_range)),
          extracted |-> parsed.df,
          ran |-> {"extract", "aggregate"}, call |-> Some(made),
          screen |-> [BlankScreen EXCEPT !.exception = Some(result.err)]]
    ELSE MainSummary(parsed, made, result,
                     summary_statistics(result.val[1].daily_data, made.metric_type))

\* Lines 129-169 of a run: after parse_healthkit_export returned.
MainParsed(parsed, category, metric_type, date_range) ==
    IF parsed.df = None \/ parsed.df[1].rows = << >>
    THEN [df |-> parsed.df, extracted |-> parsed.df, ran |-> {"extract"},
          call |-> None, screen |-> [BlankScreen EXCEPT !.error = parsed.error]]
    ELSE IF available_metrics(category, parsed.df[1]) = << >>
    THEN [df |-> parsed.df, extracted |-> parsed.df, ran |-> {"extract"},
          call |-> None, screen |-> [BlankScreen EXCEPT !.warning = Some(category)]]
    ELSE LET result == create_visualization(parsed.df[1], metric_type, date_range)
         IN  MainVisualized(parsed,
                            [metric_type |-> metric_type, date_range |-> date_range,
                             result |-> result],
                            result)

\* One run of main() with the widgets' values; the result is the frame of the
\* run, the stages executed, the create_visualization call and the page.
main(file, category, metric_type, date_range) ==
    IF file = None
    THEN [df |-> None, extracted |-> None, ran |-> {}, call |-> None,
          screen |-> BlankScreen]
    ELSE MainParsed(parse_healthkit_export(file[1]), category, metric_type, date_range)

\* The widgets' values on the first run for a file: the first category, the
\* first available metric, the default date range.
DefaultWidgets(parsed) ==
    IF parsed.df = None \/ parsed.df[1].rows = << >>
    THEN [category |-> HEALTHKIT_METRICS[1].category, metric_type |-> "",
          date_range |-> << >>]
    ELSE [category |-> HEALTHKIT_METRICS[1].category,
          metric_type |->
             Head(available_metrics(HEALTHKIT_METRICS[1].category, parsed.df[1])
                    \o << "" >>),
          date_range |-> DefaultDateRange(parsed.df[1])]

(***************************************************************************)
(* Inputs.                                                                 *)
(***************************************************************************)
StepCount == "HKQuantityTypeIdentifierStepCount"
HeartRate == "HKQuantityTypeIdentifierHeartRate"
BodyMass == "HKQuantityTypeIdentifierBodyMass"
\* A type Apple exports and the catalog does not list.
AppleExerciseTime == "HKQuantityTypeIdentifierAppleExerciseTime"

Feb1 == "2024-02-01 08:30:00 +0100"
Feb2 == "2024-02-02 08:30:00 +0100"
Feb2Summer == "2024-02-02 08:30:00 +0200"

HealthData == Element("HealthData", None, None, None, None)
BaseRecord == Element("Record", Some(StepCount), Some("72"), Some("count"), Some(Feb1))

\* The base record with one attribute, or its tag, changed.
ExtractElements ==
    { [BaseRecord EXCEPT !.tag = t] : t \in {"Record", "Workout"} }
    \cup { [BaseRecord EXCEPT !.type = t] :
             t \in {None, Some(HeartRate), Some(AppleExerciseTime)} }
    \cup { [BaseRecord EXCEPT !.value = v] :
             v \in {None, Some("abc"), Some("nan"), Some("-inf"), Some("Infinity")} }
    \cup { [BaseRecord EXCEPT !.unit = None] }
    \cup { [BaseRecord EXCEPT !.startDate = d] :
             d \in {None, Some("2024-02-30 08:30:00 +0100"), Some("2024-02-01T08:30:00Z")} }

ExtractDocs ==
    { Document(st, root, below) :
        st \in {"ok", "illformed"},
        root \in {HealthData, BaseRecord},
        below \in SeqsUpTo(ExtractElements, MaxElems) }

PipelineRecords ==
    { Element("Record", Some(HeartRate), Some("60"), Some("count/min"), Some(Feb1)),
      Element("Record", Some(HeartRate), Some("80"), Some("count/min"), Some(Feb1)),
      Element("Record", Some(StepCount), Some("80"), Some("count"), Some(Feb1)),
      Element("Record", Some(StepCount), Some("nan"), Some("count"), Some(Feb2)),
      Element("Record", Some(BodyMass), Some("70"), Some("kg"), Some(Feb2Summer)),
      Element("Record", Some(StepCount), Some("abc"), Some("count"), Some(Feb1)) }

PipelineDocs ==
    { Document(st, HealthData, below) :
        st \in {"ok", "illformed", "unreadable"},
        below \in SeqsUpTo(PipelineRecords, MaxRecords) }

\* The dates a range is picked from.
RangeDates == { <<2024, 2, 1>>, <<2024, 2, 2>> }

\* The metrics create_visualization is called with: one of each aggregation.
CallMetrics == {HeartRate, StepCount, BodyMass}

(***************************************************************************)
(* State machine.                                                          *)
(***************************************************************************)
Init ==
    /\ uploaded_file = None
    /\ df = None
    /\ extracted = None
    /\ trigger = "init"
    /\ ran = {}
    /\ call = None
    /\ screen = BlankScreen
    /\ memo = None

\* parse_healthkit_export called on a document.
ExtractCall(doc) ==
    /\ uploaded_file = None
    /\ LET parsed == parse_healthkit_export(doc)
       IN  /\ uploaded_file' = Some(doc)
           /\ df' = parsed.df
           /\ extracted' = parsed.df
           /\ screen' = [BlankScreen EXCEPT !.error = parsed.error]
    /\ trigger' = "extract"
    /\ ran' = {"extract"}
    /\ call' = None
    /\ memo' = None

\* create_visualization called on the extracted frame.  memo remembers one
\* earlier call on the same frame object and whether another call came between.
Visualize(metric_type, date_range) ==
    /\ df # None
    /\ LET result == create_visualization(df[1], metric_type, date_range)
           same == /\ memo # None
                   /\ memo[1].metric_type = metric_type
                   /\ memo[1].date_range = date_range
       IN  /\ call' = Some([metric_type |-> metric_type, date_range |-> date_range,
                            result |-> result])
           /\ df' = Some(FrameAfterVisualization(df[1], metric_type, date_range))
           /\ IF memo = None
              THEN memo' \in {None, Some([metric_type |-> metric_type,
                                          date_range |-> date_range,
                                          result |-> result, between |-> FALSE])}
              ELSE memo' = IF same THEN memo ELSE Some([memo[1] EXCEPT !.between = TRUE])
    /\ trigger' = "call"
    /\ ran' = {"aggregate"}
    /\ UNCHANGED <<uploaded_file, extracted, screen>>

\* The state after a run of the script.
RunMain(file, category, metric_type, date_range, why) ==
    LET out == main(file, category, metric_type, date_range)
    IN  /\ uploaded_file' = file
        /\ df' = out.df
        /\ extracted' = out.extracted
        /\ ran' = out.ran
        /\ call' = out.call
        /\ screen' = out.screen
        /\ trigger' = why
        /\ memo' = None

\* A file is uploaded: the script runs with every widget at its default.
UploadFile(doc) ==
    /\ uploaded_file = None
    /\ LET w == DefaultWidgets(parse_healthkit_export(doc))
       IN  RunMain(Some(doc), w.category, w.metric_type, w.date_range, "upload")

\* A sidebar widget changes: the script runs again, on the same file.
ChangeFilter(category, metric_type, date_range) ==
    /\ uploaded_file # None
    /\ df # None
    /\ df[1].rows # << >>
    /\ DateLE(date_range[1], date_range[2])
    /\ LET options == available_metrics(category, df[1])
       IN  IF options = << >> THEN metric_type = ""
           ELSE InSeq(metric_type, options)
    /\ RunMain(uploaded_file, category, metric_type, date_range, "filter")

\* The file is removed from the uploader.
ClearFile ==
    /\ uploaded_file # None
    /\ RunMain(None, HEALTHKIT_METRICS[1].category, "", << >>, "clear")

Next ==
    \/ \E doc \in PipelineDocs : UploadFile(doc)
    \/ \E category \in Categories, metric_type \in CallMetrics \cup {""},
          date_range \in RangeDates \X RangeDates :
          ChangeFilter(category, metric_type, date_range)
    \/ ClearFile

Spec == Init /\ [][Next]_vars

NextAggregate ==
    \/ \E doc \in PipelineDocs : ExtractCall(doc)
    \/ \E metric_type \in CallMetrics, date_range \in RangeDates \X RangeDates :
          Visualize(metric_type, date_range)

SpecAggregate == Init /\ [][NextAggregate]_vars

NextExtract == \E doc \in ExtractDocs : ExtractCall(doc)

SpecExtract == Init /\ [][NextExtract]_vars

(***************************************************************************)
(* Properties.                                                             *)
(***************************************************************************)
Range(q) == { q[i] : i \in DOMAIN q }

\* The extracted Observations of a metric whose calendar date is in a range.
Matching(metric_type, date_range) ==
    SelectSeq(extracted[1].rows, LAMBDA o :
        /\ o.type = metric_type
        /\ DateLE(date_range[1], dt_date(o.date))
        /\ DateLE(dt_date(o.date), date_range[2]))

\* The values of the matching Observations of one day.
DayValues(metric_type, date_range, day) ==
    LET g == SelectSeq(Matching(metric_type, date_range),
                       LAMBDA o : dt_date(o.date) = day)
    IN  [i \in DOMAIN g |-> g[i].value]

\* Arithmetic over a whole group: any NaN makes the result NaN.
GroupSum(vals) == FSum(vals)
GroupMean(vals) == FDivInt(FSum(vals), Len(vals))
GroupMin(vals) ==
    IF \E i \in DOMAIN vals : IsNaN(vals[i]) THEN NaN
    ELSE vals[CHOOSE i \in DOMAIN vals : \A j \in DOMAIN vals : ~FLess(vals[j], vals[i])]
GroupMax(vals) ==
    IF \E i \in DOMAIN vals : IsNaN(vals[i]) THEN NaN
    ELSE vals[CHOOSE i \in DOMAIN vals : \A j \in DOMAIN vals : ~FLess(vals[i], vals[j])]

\* C1: whenever create_visualization returns, every day with a non-empty group
\* of matching values has a row carrying mean, min and max of the group when
\* the identifier contains "HeartRate", else the sum of the group when it
\* contains "StepCount", "Distance" or "Energy", else the mean of the group.
C1_PolicyRows ==
    (call # None /\ call[1].result.ok) =>
        LET m == call[1].metric_type
            r == call[1].date_range
            rows == call[1].result.val[1].daily_data
        IN  \A o \in Range(Matching(m, r)) :
              LET day == dt_date(o.date)
                  vals == DayValues(m, r, day)
              IN  \E i \in DOMAIN rows :
                    rows[i] =
                      IF Contains(m, "HeartRate")
                      THEN [date |-> day, mean |-> GroupMean(vals),
                            min |-> GroupMin(vals), max |-> GroupMax(vals)]
                      ELSE IF Contains(m, "StepCount") \/ Contains(m, "Distance")
                              \/ Contains(m, "Energy")
                      THEN [date |-> day, value |-> GroupSum(vals)]
                      ELSE [date |-> day, value |-> GroupMean(vals)]

\* C2: every call of create_visualization on a non-empty collection returns
\* rows whose dates are exactly the days in [start_date, end_date] with a
\* matching Observation, in strictly increasing order.
C2_OneRowPerDay ==
    (call # None /\ extracted[1].rows # << >>) =>
        /\ call[1].result.ok
        /\ LET m == call[1].metric_type
               r == call[1].date_range
               rows == call[1].result.val[1].daily_data
           IN  /\ { rows[i].date : i \in DOMAIN rows }
                    = { dt_date(o.date) : o \in Range(Matching(m, r)) }
               /\ \A i, j \in DOMAIN rows : i < j => DateLess(rows[i].date, rows[j].date)
               /\ \A i \in DOMAIN rows :
                    DateLE(r[1], rows[i].date) /\ DateLE(rows[i].date, r[2])

\* C3: a call of create_visualization with start_date > end_date, on a
\* collection it can aggregate, fails with InvalidRange.
C3_InvalidRange ==
    ( /\ call # None
      /\ extracted[1].dateDtype = "datetime64"
      /\ DateLess(call[1].date_range[2], call[1].date_range[1]) ) =>
        (~call[1].result.ok /\ call[1].result.err = "InvalidRange")

\* C9: create_visualization leaves the collection as the extractor returned
\* it, and a call with the metric and range of a remembered earlier call on
\* the same collection returns what that call returned.
C9_ReadOnly ==
    /\ df = extracted
    /\ ( /\ memo # None
         /\ call # None
         /\ memo[1].metric_type = call[1].metric_type
         /\ memo[1].date_range = call[1].date_range )
       => memo[1].result = call[1].result

\* A call repeated after a different call came between, with rows to compare.
C9_Witness ==
    /\ memo # None
    /\ call # None
    /\ memo[1].between
    /\ memo[1].metric_type = call[1].metric_type
    /\ memo[1].date_range = call[1].date_range
    /\ call[1].result.ok
    /\ call[1].result.val[1].daily_data # << >>
    /\ Len(extracted[1].rows) > Len(Matching(call[1].metric_type, call[1].date_range))

(***************************************************************************)
(* Properties of the extractor, under SpecExtract.                         *)
(***************************************************************************)
\* The catalog's categories that list an identifier.
CatalogCategories(type) ==
    { c \in Categories : InSeq(type, MetricsOf(c)) }

\* An element that the specification turns into an Observation.
IsValidRecord(e) ==
    /\ e.tag = "Record"
    /\ e.type # None
    /\ CatalogCategories(e.type[1]) # {}
    /\ pyFloat(e.value).ok
    /\ strptime(e.startDate).ok

ObservationOf(e) ==
    [type |-> e.type[1],
     value |-> pyFloat(e.value).val[1],
     unit |-> e.unit,
     date |-> strptime(e.startDate).val[1],
     category |-> CHOOSE c \in CatalogCategories(e.type[1]) : TRUE]

\* The Observations of the valid elements of a sequence, in its order.
ObservationsOf(elements) ==
    LET valid == SelectSeq(elements, IsValidRecord)
    IN  [i \in DOMAIN valid |-> ObservationOf(valid[i])]

\* C4 as stated: for a well-formed document the extractor returns, without an
\* error, the Observations of the valid Record elements of the document, the
\* root element included, in document order.
C4_AllRecordElements ==
    (uploaded_file # None /\ uploaded_file[1].status = "ok") =>
        /\ screen.error = None
        /\ df # None
        /\ df[1].rows = ObservationsOf(<< uploaded_file[1].root >> \o uploaded_file[1].below)

\* C4 amended: for a well-formed document the extractor returns, without an
\* error, the Observations of the valid Record elements beneath the root, in
\* document order; every other element is skipped.
C4_RecordsBelowRoot ==
    (uploaded_file # None /\ uploaded_file[1].status = "ok") =>
        /\ screen.error = None
        /\ df # None
        /\ df[1].rows = ObservationsOf(uploaded_file[1].below)

\* A well-formed document with a skipped element before an extracted one.
C4_Witness ==
    /\ uploaded_file # None
    /\ uploaded_file[1].status = "ok"
    /\ Len(uploaded_file[1].below) = 2
    /\ ~IsValidRecord(uploaded_file[1].below[1])
    /\ IsValidRecord(uploaded_file[1].below[2])
    /\ df # None
    /\ Len(df[1].rows) = 1

\* C5: every Observation the extractor returns has a finite value.
C5_FiniteValues ==
    df # None => \A i \in DOMAIN df[1].rows : IsFinite(df[1].rows[i].value)

(***************************************************************************)
(* Properties of the script, under Spec.                                   *)
(***************************************************************************)
\* C6: after a run on a document that cannot be read or parsed, there is an
\* error report and no collection, and nothing after the extractor ran: no
\* create_visualization call, no chart, no summary, no table.
C6_FatalExtraction ==
    (uploaded_file # None /\ uploaded_file[1].status # "ok") =>
        /\ screen.error # None
        /\ df = None
        /\ extracted = None
        /\ ran = {"extract"}
        /\ call = None
        /\ screen.chart = None
        /\ screen.metrics = None
        /\ screen.table = None

\* A run on an unusable document that holds a valid record before the failure.
C6_Witness ==
    /\ uploaded_file # None
    /\ uploaded_file[1].status # "ok"
    /\ \E i \in DOMAIN uploaded_file[1].below : IsValidRecord(uploaded_file[1].below[i])
    /\ trigger = "upload"
    /\ screen.error # None

\* C7: when create_visualization returns no row in a run, the run raises
\* nothing and shows no computed average, maximum or minimum.
C7_EmptyInput ==
    ( /\ call # None
      /\ call[1].result.ok
      /\ call[1].result.val[1].daily_data = << >> ) =>
        (screen.exception = None /\ screen.metrics = None)

\* The primary field of a row: mean under the heart-rate policy, else value.
Primary(row) == IF "mean" \in DOMAIN row THEN row.mean ELSE row.value

\* C8: when create_visualization returns rows in a run, the run raises nothing
\* and shows the mean, the maximum and the minimum of the rows' primary field
\* and the number of rows.
C8_Summary ==
    ( /\ call # None
      /\ call[1].result.ok
      /\ call[1].result.val[1].daily_data # << >> ) =>
        LET rows == call[1].result.val[1].daily_data
            field == [i \in DOMAIN rows |-> Primary(rows[i])]
        IN  /\ screen.exception = None
            /\ screen.metrics = Some([Average |-> Format1f(GroupMean(field)),
                                      Maximum |-> Format1f(GroupMax(field)),
                                      Minimum |-> Format1f(GroupMin(field)),
                                      TotalDays |-> Len(rows)])

\* C10: a run triggered by a filter change on an uploaded document does not
\* execute the extractor.
C10_NoReExtraction ==
    [][(trigger' = "filter" /\ uploaded_file' = uploaded_file) => "extract" \notin ran']_vars
====
